---- MODULE Spec2Model ----
(***************************************************************************)
(* hexponent: parsing of C11 hexadecimal floating-point literals           *)
(* (FloatLiteral::from_chars, src/src/lib.rs) and their conversion to      *)
(* IEEE-754 binary32 / binary64 (FPFormat::from_literal,                    *)
(* src/src/fpformat.rs).                                                   *)
(*                                                                         *)
(* Characters are one-character strings, an input is a sequence of them.   *)
(* A machine register (u32 / u64) is a sequence of bits, most significant  *)
(* bit first, so that 64-bit patterns never leave the range of the         *)
(* checker's integers.  i32 arithmetic is modelled with its width: an      *)
(* operation reports whether it overflowed and the wrapped result.         *)
(***************************************************************************)
EXTENDS Integers, Sequences, FiniteSets, TLC

VARIABLES input, pc, entry, out_consumed, res, fmt, conv

vars == <<input, pc, entry, out_consumed, res, fmt, conv>>

(***************************************************************************)
(* Bounds of the checked input space.                                      *)
(***************************************************************************)
\* longest input of the exhaustive family (every string over Alphabet)
MaxShort == 5
\* longest run of a repeated filler digit inside a long hex digit string
MaxFill == 14
\* the most zero digits put in front of the integer part / behind the fraction
MaxPad == 1

(***************************************************************************)
(* i32                                                                     *)
(***************************************************************************)
I32_MAX == 2147483647
I32_MIN == -2147483647 - 1

\* a + b in i32: o says whether the mathematical sum left the i32 range,
\* v is the sum reduced modulo 2^32 (what wrapping arithmetic leaves).
I32Add(a, b) ==
    IF a > 0 /\ b > 0 /\ a > I32_MAX - b
      THEN [o |-> TRUE, v |-> (a + I32_MIN) + (b + I32_MIN)]
    ELSE IF a < 0 /\ b < 0 /\ a < I32_MIN - b
      THEN [o |-> TRUE, v |-> (a - I32_MIN) + (b - I32_MIN)]
    ELSE [o |-> FALSE, v |-> a + b]

\* a * 4 in i32, as two wrapping doublings.
I32Mul4(a) ==
    LET d == I32Add(a, a)
        q == I32Add(d.v, d.v)
    IN  [o |-> d.o \/ q.o, v |-> q.v]

(***************************************************************************)
(* Characters                                                              *)
(***************************************************************************)
NUL == "\\0"

HexLower == <<"0", "1", "2", "3", "4", "5", "6", "7", "8", "9",
              "a", "b", "c", "d", "e", "f">>
HexUpper == <<"0", "1", "2", "3", "4", "5", "6", "7", "8", "9",
              "A", "B", "C", "D", "E", "F">>

\* char::to_digit(16): the digit's value, or -1 for None.
to_digit16(c) ==
    IF \E i \in 1..16 : HexLower[i] = c \/ HexUpper[i] = c
      THEN (CHOOSE i \in 1..16 : HexLower[i] = c \/ HexUpper[i] = c) - 1
      ELSE -1

\* char::is_ascii_digit
is_ascii_digit(c) == \E i \in 1..10 : HexLower[i] = c

\* the value of an ascii decimal digit
DecVal(c) == (CHOOSE i \in 1..10 : HexLower[i] = c) - 1

(***************************************************************************)
(* CharsIterator: the input and the count of consumed chars.               *)
(***************************************************************************)
\* CharsIterator::peek: "None" at the end of the input.
peek(inp, consumed) == IF consumed < Len(inp) THEN inp[consumed + 1] ELSE "None"

\* CharsIterator::current: the char at the cursor, or \0.
current(inp, consumed) == IF consumed < Len(inp) THEN inp[consumed + 1] ELSE NUL

\* CharsIterator::next: consumed after the call (unchanged at the end).
next(inp, consumed) == IF consumed < Len(inp) THEN consumed + 1 ELSE consumed

\* consume_hex_digits: the cursor after the maximal run of hex digits.
RECURSIVE HexRunEnd(_, _)
HexRunEnd(inp, consumed) ==
    IF consumed < Len(inp) /\ to_digit16(inp[consumed + 1]) >= 0
      THEN HexRunEnd(inp, next(inp, consumed))
      ELSE consumed

\* consume_hex_digits: the values of the digits of that run.
consume_hex_digits(inp, consumed) ==
    [i \in 1..(HexRunEnd(inp, consumed) - consumed) |-> to_digit16(inp[consumed + i])]
        \o <<>>

\* mutant of DecRunEnd: the loop stops after one decimal digit
DecRunEnd_OneDigit(inp, consumed) ==
    IF is_ascii_digit(current(inp, consumed)) THEN next(inp, consumed) ELSE consumed

\* the loop collecting the exponent's decimal digits: the cursor after it.
RECURSIVE DecRunEnd(_, _)
DecRunEnd(inp, consumed) ==
    IF is_ascii_digit(current(inp, consumed))
      THEN DecRunEnd(inp, next(inp, consumed))
      ELSE consumed

(***************************************************************************)
(* str::parse::<i32> of the collected exponent string: an optional '-'     *)
(* and decimal digits, accumulated with checked arithmetic.                *)
(***************************************************************************)
\* One step per digit: acc * 10 + d (acc * 10 - d for a negative number) with
\* checked_mul / checked_add; o is set once the i32 range is left.
RECURSIVE ParseI32Digits(_, _, _, _)
ParseI32Digits(ds, i, acc, negative) ==
    IF i > Len(ds) THEN [o |-> FALSE, v |-> acc]
    ELSE LET d == DecVal(ds[i])
             lo == (I32_MIN + d) \div 10 + (IF (I32_MIN + d) % 10 = 0 THEN 0 ELSE 1)
             hi == (I32_MAX - d) \div 10
         IN  IF negative
               THEN IF acc < lo
                      THEN [o |-> TRUE, v |-> 0]
                      ELSE ParseI32Digits(ds, i + 1, acc * 10 - d, negative)
               ELSE IF acc > hi
                      THEN [o |-> TRUE, v |-> 0]
                      ELSE ParseI32Digits(ds, i + 1, acc * 10 + d, negative)

\* exponent_str.parse::<i32>(): negative says whether the string starts with '-'
ParseI32(negative, ds) == ParseI32Digits(ds, 1, 0, negative)

(***************************************************************************)
(* FloatLiteral and the result of from_chars                               *)
(***************************************************************************)
FloatLiteral(is_positive, digits, decimal_offset, exponent) ==
    [is_positive |-> is_positive, digits |-> digits,
     decimal_offset |-> decimal_offset, exponent |-> exponent]

NoLiteral == FloatLiteral(TRUE, <<>>, 0, 0)

\* Ok(literal), with the scanner's consumed count at the return
Ok(lit, consumed) ==
    [ok |-> TRUE, kind |-> "Ok", index |-> 0, consumed |-> consumed, lit |-> lit]

\* ParseErrorKind::at: Err(ParseError { kind, index }); consumed is the scanner's
\* count when the error is returned
Err(kind, index, consumed) ==
    [ok |-> FALSE, kind |-> kind, index |-> index, consumed |-> consumed,
     lit |-> NoLiteral]

NoResult == [ok |-> FALSE, kind |-> "None", index |-> 0, consumed |-> 0,
             lit |-> NoLiteral]

\* iter().position(|&d| d != 0): 0-based, -1 for None
position_nonzero(ds) ==
    IF \E i \in 1..Len(ds) : ds[i] # 0
      THEN (CHOOSE i \in 1..Len(ds) : ds[i] # 0 /\ \A j \in 1..(i - 1) : ds[j] = 0) - 1
      ELSE -1

\* iter().rposition(|&d| d != 0): 0-based, -1 for None
rposition_nonzero(ds) ==
    IF \E i \in 1..Len(ds) : ds[i] # 0
      THEN (CHOOSE i \in 1..Len(ds) : ds[i] # 0 /\ \A j \in (i + 1)..Len(ds) : ds[j] = 0) - 1
      ELSE -1

\* mutant of Normalize: decimal_offset counted from the start of the integer part
Normalize_OffsetFromStart(ipart, fpart) ==
    LET raw_digits == ipart \o fpart
        first_digit == position_nonzero(raw_digits)
        last_digit == rposition_nonzero(raw_digits)
    IN  IF first_digit >= 0
          THEN [digits |-> SubSeq(raw_digits, first_digit + 1, last_digit + 1),
                decimal_offset |-> Len(ipart)]
          ELSE [digits |-> <<>>, decimal_offset |-> 0]

\* mutant of Normalize: the trailing zeros are kept
Normalize_KeepTrailingZeros(ipart, fpart) ==
    LET raw_digits == ipart \o fpart
        first_digit == position_nonzero(raw_digits)
    IN  IF first_digit >= 0
          THEN [digits |-> SubSeq(raw_digits, first_digit + 1, Len(raw_digits)),
                decimal_offset |-> Len(ipart) - first_digit]
          ELSE [digits |-> <<>>, decimal_offset |-> 0]

\* the normalisation at the end of from_chars: (digits, decimal_offset)
Normalize(ipart, fpart) ==
    LET raw_digits == ipart \o fpart
        first_digit == position_nonzero(raw_digits)
        last_digit == rposition_nonzero(raw_digits)
    IN  IF first_digit >= 0
          THEN [digits |-> SubSeq(raw_digits, first_digit + 1, last_digit + 1),
                decimal_offset |-> Len(ipart) - first_digit]
          ELSE [digits |-> <<>>, decimal_offset |-> 0]

\* mutant of NoDigits: only the integer part is looked at
NoDigits_IpartOnly(ipart, fpart) == ipart = <<>>

\* "Must have digits before or after the decimal point."
NoDigits(ipart, fpart) == fpart = <<>> /\ ipart = <<>>

\* mutant of ParseExponent: exponent_start taken after the exponent's sign
ParseExponent_StartAfterSign(inp, c0) ==
    LET c1 == next(inp, c0)
        sign == current(inp, c1)
        c2 == IF sign = "+" \/ sign = "-" THEN next(inp, c1) ELSE c1
        exponent_start == c2
        c3 == DecRunEnd(inp, c2)
        ds == SubSeq(inp, c2 + 1, c3)
        parsed == ParseI32(sign = "-", ds)
    IN  IF ds = <<>>
          THEN [err |-> "MissingExponent", index |-> exponent_start, consumed |-> c3,
                exponent |-> 0]
        ELSE IF parsed.o
          THEN [err |-> "ExponentOverflow", index |-> exponent_start, consumed |-> c3,
                exponent |-> 0]
        ELSE [err |-> "", index |-> 0, consumed |-> c3, exponent |-> parsed.v]

\* The exponent part of from_chars, entered with the cursor c0 on 'p' / 'P'.
ParseExponent(inp, c0) ==
    LET c1 == next(inp, c0)
        exponent_start == c1
        sign == current(inp, c1)
        c2 == IF sign = "+" \/ sign = "-" THEN next(inp, c1) ELSE c1
        c3 == DecRunEnd(inp, c2)
        ds == SubSeq(inp, c2 + 1, c3)
        parsed == ParseI32(sign = "-", ds)
    IN  IF ds = <<>>
          THEN [err |-> "MissingExponent", index |-> exponent_start, consumed |-> c3,
                exponent |-> 0]
        ELSE IF parsed.o
          THEN [err |-> "ExponentOverflow", index |-> exponent_start, consumed |-> c3,
                exponent |-> 0]
        ELSE [err |-> "", index |-> 0, consumed |-> c3, exponent |-> parsed.v]

\* FloatLiteral::from_chars, with the consumed count it would write on success.
from_chars(inp, decimal_sep) ==
    LET first == peek(inp, 0)
        is_positive == first # "-"
        c1 == IF first = "+" \/ first = "-" THEN next(inp, 0) ELSE 0
        prefix_start == c1
        c2 == next(inp, c1)
        c3 == next(inp, c2)
        ipart == consume_hex_digits(inp, c3)
        c4 == HexRunEnd(inp, c3)
        has_sep == current(inp, c4) = decimal_sep
        c5 == IF has_sep THEN next(inp, c4) ELSE c4
        fpart == IF has_sep THEN consume_hex_digits(inp, c5) ELSE <<>>
        c6 == IF has_sep THEN HexRunEnd(inp, c5) ELSE c5
        has_exp == current(inp, c6) = "p" \/ current(inp, c6) = "P"
        ex == IF has_exp THEN ParseExponent(inp, c6)
              ELSE [err |-> "", index |-> 0, consumed |-> c6, exponent |-> 0]
        norm == Normalize(ipart, fpart)
    IN  IF current(inp, c1) # "0"
          THEN Err("MissingPrefix", prefix_start, c1)
        ELSE IF current(inp, c2) # "x" /\ current(inp, c2) # "X"
          THEN Err("MissingPrefix", prefix_start, c2)
        ELSE IF NoDigits(ipart, fpart)
          THEN Err("MissingDigits", c6, c6)
        ELSE IF ex.err # ""
          THEN Err(ex.err, ex.index, ex.consumed)
        ELSE Ok(FloatLiteral(is_positive, norm.digits, norm.decimal_offset, ex.exponent),
                ex.consumed)

(***************************************************************************)
(* Registers of the $bits_type (u32 / u64): sequences of bits, index 1 the *)
(* most significant.                                                       *)
(***************************************************************************)
Pow2(n) == 2 ^ n

\* a function on 1..w as the sequence it is
Reg(r) == r \o <<>>

ZeroReg(w) == Reg([i \in 1..w |-> 0])

\* (v as $bits_type) for an i32 v: two's complement, sign-extended to w bits
AsBits(v, w) ==
    Reg([i \in 1..w |->
          LET k == w - i
          IN  IF k >= 31 THEN (IF v < 0 THEN 1 ELSE 0)
              ELSE IF v < 0 THEN ((v - I32_MIN) \div Pow2(k)) % 2
              ELSE (v \div Pow2(k)) % 2])

\* r << n, for 0 <= n < width
Shl(r, n) == Reg([i \in 1..Len(r) |-> IF i + n <= Len(r) THEN r[i + n] ELSE 0])

\* r >> n, for 0 <= n < width
Shr(r, n) == Reg([i \in 1..Len(r) |-> IF i - n >= 1 THEN r[i - n] ELSE 0])

\* a | b
BitOr(a, b) == Reg([i \in 1..Len(a) |-> IF a[i] = 1 \/ b[i] = 1 THEN 1 ELSE 0])

\* $bits_type::leading_zeros
leading_zeros(r) ==
    IF \E i \in 1..Len(r) : r[i] = 1
      THEN (CHOOSE i \in 1..Len(r) : r[i] = 1 /\ \A j \in 1..(i - 1) : r[j] = 0) - 1
      ELSE Len(r)

(***************************************************************************)
(* impl_fpformat!: the two instantiations and the constants of the macro.  *)
(***************************************************************************)
F32 == [name |-> "f32", EXPONENT_BITS |-> 8, MANTISSA_BITS |-> 23,
        MAX_EXP |-> 128, MIN_EXP |-> -125]
F64 == [name |-> "f64", EXPONENT_BITS |-> 11, MANTISSA_BITS |-> 52,
        MAX_EXP |-> 1024, MIN_EXP |-> -1021]

Formats == {F32, F64}

TOTAL_BITS(f) == 1 + f.EXPONENT_BITS + f.MANTISSA_BITS

EXPONENT_BIAS(f) == Pow2(f.EXPONENT_BITS - 1) - 1

\* the float literals the macro returns, as bit patterns
PosZero(f) == ZeroReg(TOTAL_BITS(f))

Infinity(f) ==
    Reg([i \in 1..TOTAL_BITS(f) |-> IF i >= 2 /\ i <= 1 + f.EXPONENT_BITS THEN 1 ELSE 0])

\* ops::Neg on a float: the sign bit flipped
Neg(bits) == Reg([i \in 1..Len(bits) |-> IF i = 1 THEN 1 - bits[1] ELSE bits[i]])

Precise(bits) == [tag |-> "Precise", bits |-> bits]
Imprecise(bits) == [tag |-> "Imprecise", bits |-> bits]
\* an arithmetic-overflow panic of a build with overflow checks
Panic == [tag |-> "panic", bits |-> <<>>]
NoConv == [tag |-> "None", bits |-> <<>>]

\* the digit-packing loop: [was_truncated, mantissa_result] from digit `index` on
RECURSIVE PackDigits(_, _, _, _)
PackDigits(f, digits, index, mantissa_result) ==
    IF index >= Len(digits)
      THEN [was_truncated |-> FALSE, mantissa_result |-> mantissa_result]
    ELSE IF index * 4 > f.MANTISSA_BITS
      THEN [was_truncated |-> TRUE, mantissa_result |-> mantissa_result]
    ELSE LET digit_value ==
                 Shl(AsBits(digits[index + 1], TOTAL_BITS(f)),
                     TOTAL_BITS(f) - (index + 1) * 4)
         IN  PackDigits(f, digits, index + 1, BitOr(mantissa_result, digit_value))

\* let mut exponent_offset: i32 = literal.decimal_offset * 4;
ExponentOffset(lit) == I32Mul4(lit.decimal_offset)

\* mutant of FinalExponent: the exponent after p taken as a power of sixteen
FinalExponent_Hex16(exponent_offset, exponent) ==
    I32Add(exponent_offset, I32Mul4(exponent).v)

\* let final_exponent = exponent_offset + literal.exponent;
FinalExponent(exponent_offset, exponent) == I32Add(exponent_offset, exponent)

\* the result for a literal without digits
ZeroResult(f, lit) == Precise(PosZero(f))

\* "Check for underflows"
Underflows(f, final_exponent) == final_exponent < f.MIN_EXP - 1

\* mutant of Overflows: the limit off by one
Overflows_OffByOne(f, final_exponent) == final_exponent > f.MAX_EXP

\* "Check for overflows"
Overflows(f, final_exponent) == final_exponent > f.MAX_EXP - 1

\* mantissa_result <<= leading_zeros + 1; mantissa_result >>= TOTAL_BITS - MANTISSA_BITS
\* (a wrapping build masks the shift amount to the register width)
MantissaField(f, packed, shift) ==
    Shr(Shl(packed, shift), TOTAL_BITS(f) - f.MANTISSA_BITS)

\* sign_result | exponent_result | mantissa_result
Assemble(f, lit, final_exponent, mantissa_result) ==
    LET exponent_result ==
            Shl(AsBits(final_exponent + EXPONENT_BIAS(f), TOTAL_BITS(f)), f.MANTISSA_BITS)
        sign_result ==
            Shl(AsBits(IF lit.is_positive THEN 0 ELSE 1, TOTAL_BITS(f)),
                f.MANTISSA_BITS + f.EXPONENT_BITS)
    IN  BitOr(BitOr(sign_result, exponent_result), mantissa_result)

\* FPFormat::from_literal for format f.  checked says whether the build has
\* overflow checks (a debug build panics on i32 overflow, a release build wraps).
from_literal(f, lit, checked) ==
    LET off0 == ExponentOffset(lit)
        pack == PackDigits(f, lit.digits, 0, ZeroReg(TOTAL_BITS(f)))
        lz == leading_zeros(pack.mantissa_result)
        off1 == I32Add(off0.v, -(lz + 1))
        shift_overflow == lz + 1 >= TOTAL_BITS(f)
        mantissa_result ==
            MantissaField(f, pack.mantissa_result, (lz + 1) % TOTAL_BITS(f))
        fin == FinalExponent(off1.v, lit.exponent)
        final_exponent == fin.v
        float_value == Assemble(f, lit, final_exponent, mantissa_result)
    IN  IF checked /\ off0.o THEN Panic
        ELSE IF lit.digits = <<>> THEN ZeroResult(f, lit)
        ELSE IF checked /\ (off1.o \/ shift_overflow \/ fin.o) THEN Panic
        ELSE IF Underflows(f, final_exponent)
          THEN (IF lit.is_positive THEN Imprecise(PosZero(f))
                ELSE Imprecise(Neg(PosZero(f))))
        ELSE IF Overflows(f, final_exponent)
          THEN (IF lit.is_positive THEN Imprecise(Infinity(f))
                ELSE Imprecise(Neg(Infinity(f))))
        ELSE IF pack.was_truncated THEN Imprecise(float_value)
        ELSE Precise(float_value)

(***************************************************************************)
(* The inputs                                                              *)
(***************************************************************************)
\* the characters of the exhaustive family: signs, prefix, digits, separator,
\* exponent marker
Alphabet == {"-", "0", "x", "1", ".", "p"}

\* every string over Alphabet of at most MaxShort characters
ShortInputs == UNION {[1..n -> Alphabet] : n \in 0..MaxShort}

Rep(c, n) == [i \in 1..n |-> c]

\* hex digit strings: a head digit, a run of one filler digit, a tail digit
Heads == {<<"1">>, <<"3">>, <<"f">>, <<"0">>}
Fillers == {"0", "f"}
Tails == {<<>>, <<"1">>, <<"8">>}

\* where the decimal separator stands in the digit string
Dots == {"none", "start", "mid", "end"}

WithDot(head, rest, dot) ==
    CASE dot = "none" -> head \o rest
      [] dot = "start" -> <<".">> \o head \o rest
      [] dot = "mid" -> head \o <<".">> \o rest
      [] dot = "end" -> head \o rest \o <<".">>

\* exponent suffixes: none, small ones, the limits of both formats, the limits
\* of i32, and the malformed ones
ExpSuffixes ==
    { <<>>,
      <<"p", "0">>, <<"p", "-", "2">>, <<"p", "-", "8">>, <<"P", "+", "4">>,
      <<"p", "1", "2", "7">>, <<"p", "1", "2", "8">>,
      <<"p", "-", "1", "2", "6">>, <<"p", "-", "1", "3", "0">>,
      <<"p", "1", "0", "2", "3">>, <<"p", "1", "0", "2", "4">>,
      <<"p", "-", "1", "0", "2", "2">>, <<"p", "-", "1", "0", "2", "6">>,
      <<"p", "2", "1", "4", "7", "4", "8", "3", "6", "4", "7">>,
      <<"p", "-", "2", "1", "4", "7", "4", "8", "3", "6", "4", "8">>,
      <<"p", "2", "1", "4", "7", "4", "8", "3", "6", "4", "8">>,
      <<"p", "-", "2", "1", "4", "7", "4", "8", "3", "6", "4", "9">>,
      <<"p", "3", "0", "0", "0", "0", "0", "0", "0", "0", "0">>,
      <<"P", "0", "0", "0", "0", "0", "0", "0", "0", "0", "0", "1", "2">>,
      <<"p", "+">>, <<"P", "-">>, <<"P">> }

Trailers == {<<>>, <<" ">>}

Signs == {<<>>, <<"-">>, <<"+">>}

\* long digit strings, for the precision of the conversion
PrecisionInputs ==
    { sign \o <<"0", "x">> \o head \o Rep(fill, n) \o tail \o ex :
        sign \in {<<>>, <<"-">>}, head \in Heads, fill \in Fillers, n \in 0..MaxFill,
        tail \in Tails, ex \in {<<>>, <<"p", "-", "8">>} }

\* short digit strings with every exponent suffix, for the range of the conversion
RangeInputs ==
    { sign \o <<"0", "x">> \o WithDot(head, rest, dot) \o ex \o trail :
        sign \in Signs, head \in Heads, rest \in {<<>>, <<"0", "1">>},
        dot \in Dots, ex \in ExpSuffixes, trail \in Trailers }

\* the inputs of test_consumed and test_error_indecies, and padded forms of one
\* literal (test_zero_trimming, test_parse)
ScenarioInputs ==
    { <<"0", "x", "3", ".", "1", "4", "p", "+", "3", " ">>,
      <<"0", "x", "3", ".", "1", "4", "p", "+", "3", " ", " ", " ", " ">>,
      <<"0", "x", "0", "p", "3", " ", " ", " ", " ">>,
      <<"0", "x", "0", "0", "0", "0", "0", "0", "0", "p", "3", " ", " ", " ", " ">>,
      <<"-", "0", "x", "0", "p", "3", " ", " ", " ", " ">>,
      <<"0", ".", "F">>,
      <<"0", "x", ".", "p", "1">>,
      <<"0", "x", "b", ".", "0", "p">>,
      <<"0", "x", "1", "p", "-">>,
      <<"0", "x", "1", "p", "3", "0", "0", "0", "0", "0", "0", "0", "0", "0">>,
      <<"0", "x", "1", " ", "p", "5">>,
      <<"0", "x", "1", ".", "2", ".", "p", "5">>,
      <<"0", "x", "1", "p", "+", "-", "5">>,
      <<"0", "x", "1", "p", "5", "p", "6">>,
      <<"0", "x", "0", ".", "2">>,
      <<"0", "x", ".", "2">>,
      <<"0", "x", ".", "2", "0">>,
      <<"0", "x", "1", "p", "-", "1", "4", "9">>,
      <<"0", "x", "1", ".", "0", "p", "-", "1", "4", "9">>,
      <<"0", "x", "0", ".", "0", "0", "0", "0", "0", "0", "0", "0", "0", "1", "p", "+", "4", "0">>,
      <<"0", "x", ".", "0", "0", "1", "0">>,
      <<"0", "x", "0", "0", "1", "0", "0", ".", "0">> }

Inputs == ShortInputs \cup PrecisionInputs \cup RangeInputs \cup ScenarioInputs

\* the caller's variable before the call: let mut res = 0
InitialConsumed == 0

(***************************************************************************)
(* The state machine: one input is parsed through one of the entry points, *)
(* and a parsed literal is converted to one of the formats.                *)
(***************************************************************************)
Init ==
    /\ input \in Inputs
    /\ pc = "start"
    /\ entry = "none"
    /\ out_consumed = InitialConsumed
    /\ res = NoResult
    /\ fmt = "none"
    /\ conv = NoConv

\* mutant of WriteConsumed: the count is written on the error paths too
WriteConsumed_Always(r, old) == r.consumed

\* *out_consumed = data.consumed, reached on the success path only
WriteConsumed(r, old) == IF r.ok THEN r.consumed ELSE old

\* impl FromStr for FloatLiteral: from_chars(s.chars(), '.', &mut 0)
FromStr ==
    /\ pc = "start"
    /\ entry' = "from_str"
    /\ res' = from_chars(input, ".")
    /\ pc' = "parsed"
    /\ UNCHANGED <<input, out_consumed, fmt, conv>>

\* FloatLiteral::from_chars called with the caller's out_consumed
FromChars ==
    /\ pc = "start"
    /\ entry' = "from_chars"
    /\ res' = from_chars(input, ".")
    /\ out_consumed' = WriteConsumed(res', out_consumed)
    /\ pc' = "parsed"
    /\ UNCHANGED <<input, fmt, conv>>

\* parse_hex_float: from_chars, then convert::<f64> of the literal
ParseHexFloat ==
    /\ pc = "start"
    /\ entry' = "parse_hex_float"
    /\ res' = from_chars(input, ".")
    /\ out_consumed' = WriteConsumed(res', out_consumed)
    /\ \E checked \in BOOLEAN :
         IF res'.ok
           THEN /\ conv' = from_literal(F64, res'.lit, checked)
                /\ fmt' = F64.name
                /\ pc' = "converted"
           ELSE /\ pc' = "parsed"
                /\ UNCHANGED <<fmt, conv>>
    /\ UNCHANGED input

\* FloatLiteral::convert::<F> of a parsed literal
Convert ==
    /\ pc = "parsed"
    /\ res.ok
    /\ \E f \in Formats, checked \in BOOLEAN :
         /\ conv' = from_literal(f, res.lit, checked)
         /\ fmt' = f.name
    /\ pc' = "converted"
    /\ UNCHANGED <<input, entry, out_consumed, res>>

Next == FromStr \/ FromChars \/ ParseHexFloat \/ Convert

Spec == Init /\ [][Next]_vars

(***************************************************************************)
(* Reading a result: the fields of a bit pattern and the exact value of a  *)
(* literal.  A non-zero dyadic value is its significand (the bits from its *)
(* leading one to its last one) and the binary exponent of its leading     *)
(* one.                                                                    *)
(***************************************************************************)
Fmt == IF fmt = "f32" THEN F32 ELSE F64

\* the number a short bit string denotes
RECURSIVE BitsValue(_)
BitsValue(b) ==
    IF b = <<>> THEN 0 ELSE 2 * BitsValue(SubSeq(b, 1, Len(b) - 1)) + b[Len(b)]

SignField(bits) == bits[1]
ExponentField(f, bits) == SubSeq(bits, 2, 1 + f.EXPONENT_BITS)
MantissaBits(f, bits) == SubSeq(bits, 2 + f.EXPONENT_BITS, Len(bits))

AllZero(b) == \A i \in 1..Len(b) : b[i] = 0
AllOne(b) == \A i \in 1..Len(b) : b[i] = 1

IsZero(f, bits) == AllZero(ExponentField(f, bits)) /\ AllZero(MantissaBits(f, bits))
IsInfinite(f, bits) == AllOne(ExponentField(f, bits)) /\ AllZero(MantissaBits(f, bits))
IsNaN(f, bits) == AllOne(ExponentField(f, bits)) /\ ~AllZero(MantissaBits(f, bits))
IsSubnormal(f, bits) == AllZero(ExponentField(f, bits)) /\ ~AllZero(MantissaBits(f, bits))
IsNormal(f, bits) == ~AllZero(ExponentField(f, bits)) /\ ~AllOne(ExponentField(f, bits))

\* a bit string without its trailing zeros
RECURSIVE StripTrailingZeros(_)
StripTrailingZeros(b) ==
    IF b # <<>> /\ b[Len(b)] = 0 THEN StripTrailingZeros(SubSeq(b, 1, Len(b) - 1)) ELSE b

\* a bit string without its leading zeros
RECURSIVE StripLeadingZeros(_)
StripLeadingZeros(b) ==
    IF b # <<>> /\ b[1] = 0 THEN StripLeadingZeros(SubSeq(b, 2, Len(b))) ELSE b

\* the 4 bits of each digit, in order
DigitBits(digits) ==
    [i \in 1..(4 * Len(digits)) |->
        (digits[(i - 1) \div 4 + 1] \div Pow2(3 - ((i - 1) % 4))) % 2] \o <<>>

\* the significand of the literal's exact value
ExactSignificand(lit) == StripTrailingZeros(StripLeadingZeros(DigitBits(lit.digits)))

\* the exponent of the leading one of digits * 16^(decimal_offset - count), i.e.
\* of the exact value without its 2^exponent factor
ExactLeadExponent(lit) ==
    4 * lit.decimal_offset
      - (Len(DigitBits(lit.digits)) - Len(StripLeadingZeros(DigitBits(lit.digits)))) - 1

\* the significand of a normal float: the implicit one and the mantissa field
FloatSignificand(f, bits) == StripTrailingZeros(<<1>> \o MantissaBits(f, bits))

\* the unbiased exponent of a normal float
FloatExponent(f, bits) == BitsValue(ExponentField(f, bits)) - EXPONENT_BIAS(f)

\* The input is written with a minus sign.
InputNegative == input # <<>> /\ input[1] = "-"

\* bits is exactly sign * digits * 16^(decimal_offset - count) * 2^exponent
\* (the exponents are compared without leaving the i32 range)
IsExactValue(f, bits, lit) ==
    IF lit.digits = <<>> THEN IsZero(f, bits)
    ELSE /\ IsNormal(f, bits)
         /\ SignField(bits) = (IF lit.is_positive THEN 0 ELSE 1)
         /\ FloatSignificand(f, bits) = ExactSignificand(lit)
         /\ FloatExponent(f, bits) - ExactLeadExponent(lit) = lit.exponent

\* the exact value's leading exponent, ExactLeadExponent + exponent, is above /
\* below / equal to e
TrueExponentAbove(lit, e) == lit.exponent > e - ExactLeadExponent(lit)
TrueExponentBelow(lit, e) == lit.exponent < e - ExactLeadExponent(lit)

Returned == pc = "converted" /\ conv.tag \in {"Precise", "Imprecise"}

Parsed == pc \in {"parsed", "converted"}

(***************************************************************************)
(* The claims                                                              *)
(***************************************************************************)
SignedZero(f, negative) == IF negative THEN Neg(PosZero(f)) ELSE PosZero(f)
SignedInfinity(f, negative) == IF negative THEN Neg(Infinity(f)) ELSE Infinity(f)

\* C1: a literal whose digit sequence is empty converts, to f32 and to f64, to
\* Precise(zero) with the sign bit of the literal: "-0x0" gives the negative-zero
\* pattern, a positive literal the all-zero pattern.
C1_SignOfZeroPreserved ==
    (Returned /\ res.lit.digits = <<>>) =>
        /\ conv.tag = "Precise"
        /\ conv.bits = SignedZero(Fmt, InputNegative)

\* C2: the whole-slice entry (FromStr) returns Ok only when the literal grammar
\* consumed the entire input; with input left over it fails with ExtraData.
C2_ExtraDataOnTrailingInput ==
    (Parsed /\ entry = "from_str") =>
        (res.ok => res.consumed = Len(input))

\* C3: a Precise result is bit-exact: Precise(v) implies that v is the literal's
\* exact value sign * digits * 16^(decimal_offset - count) * 2^exponent.
C3_PreciseIsExact ==
    (Returned /\ conv.tag = "Precise") => IsExactValue(Fmt, conv.bits, res.lit)

\* C4: parse followed by convert never panics: every conversion of a parsed
\* literal completes with a tagged result, no i32 computation overflows and no
\* shift amount reaches the register width.
C4_ConvertNeverPanics ==
    pc = "converted" => conv.tag \in {"Precise", "Imprecise"}

\* C5: with non-empty digits, a true final exponent above max_exp - 1 gives
\* Imprecise(infinity) and one below min_exp - 1 gives Imprecise(zero), each with
\* the sign of the literal, for every exponent the parser accepts.
C5_SaturatesWithSign ==
    (pc = "converted" /\ res.lit.digits # <<>>) =>
        /\ TrueExponentAbove(res.lit, Fmt.MAX_EXP - 1) =>
              conv = Imprecise(SignedInfinity(Fmt, InputNegative))
        /\ TrueExponentBelow(res.lit, Fmt.MIN_EXP - 1) =>
              conv = Imprecise(SignedZero(Fmt, InputNegative))

\* C6: a conversion never returns NaN or a subnormal: the pattern is a signed
\* zero, a signed infinity or a normal number, and in a normal number the sign
\* and exponent fields hold the literal's sign and its biased final exponent
\* (the mantissa field does not reach into them).
C6_NeverNaNNorSubnormal ==
    Returned =>
        /\ Len(conv.bits) = TOTAL_BITS(Fmt)
        /\ ~IsNaN(Fmt, conv.bits)
        /\ ~IsSubnormal(Fmt, conv.bits)
        /\ IsNormal(Fmt, conv.bits) =>
              /\ SignField(conv.bits) = (IF InputNegative THEN 1 ELSE 0)
              /\ FloatExponent(Fmt, conv.bits) - ExactLeadExponent(res.lit) = res.lit.exponent

\* C6 witness: f32 conversion returning a normal number with the largest
\* exponent field, 2^E - 2, and a non-zero mantissa field
C6_Witness ==
    /\ Returned
    /\ fmt = "f32"
    /\ IsNormal(F32, conv.bits)
    /\ BitsValue(ExponentField(F32, conv.bits)) = Pow2(F32.EXPONENT_BITS) - 2
    /\ ~AllZero(MantissaBits(F32, conv.bits))

\* C7: an input whose exact value has at most M + 1 significant bits and a
\* normal-range exponent converts to Precise(v) with v exactly that value, for
\* f32 and f64.
C7_ExactRoundTrip ==
    (/\ pc = "converted"
     /\ res.lit.digits # <<>>
     /\ Len(ExactSignificand(res.lit)) <= Fmt.MANTISSA_BITS + 1
     /\ ~TrueExponentAbove(res.lit, Fmt.MAX_EXP - 1)
     /\ ~TrueExponentBelow(res.lit, Fmt.MIN_EXP - 1)) =>
        /\ conv.tag = "Precise"
        /\ IsExactValue(Fmt, conv.bits, res.lit)

\* bits is +2^k, a normal number
IsPowerOfTwo(f, bits, k) ==
    /\ SignField(bits) = 0
    /\ IsNormal(f, bits)
    /\ FloatExponent(f, bits) = k
    /\ AllZero(MantissaBits(f, bits))

In_0x1p_2 == <<"0", "x", "1", "p", "-", "2">>
In_0x1p_8 == <<"0", "x", "1", "p", "-", "8">>

\* C8 as stated: "0x1p-2" converts (to f32 and to f64) to Precise(0.00390625),
\* the value 2^-8.
C8_Scenario_0x1p_2 ==
    (pc = "converted" /\ input = In_0x1p_2) =>
        /\ conv.tag = "Precise"
        /\ IsPowerOfTwo(Fmt, conv.bits, -8)

\* C8 amended: the exponent after p is a power of two, so it is "0x1p-8" that
\* converts to Precise(0.00390625) = 2^-8, and "0x1p-2" converts to Precise(0.25)
\* = 2^-2.
C8_Scenario_0x1p_8 ==
    /\ (pc = "converted" /\ input = In_0x1p_8) =>
          /\ conv.tag = "Precise"
          /\ IsPowerOfTwo(Fmt, conv.bits, -8)
    /\ (pc = "converted" /\ input = In_0x1p_2) =>
          /\ conv.tag = "Precise"
          /\ IsPowerOfTwo(Fmt, conv.bits, -2)

\* C8 witness: "0x1p-8" converted to f32
C8_Witness == pc = "converted" /\ input = In_0x1p_8 /\ fmt = "f32" /\ conv.tag = "Precise"

ZeroLiteralParsed ==
    /\ res.ok
    /\ res.lit.digits = <<>>
    /\ res.lit.decimal_offset = 0
    /\ res.lit.exponent = 0

\* C9 as stated: "0x0", "0x." and "0x.0" all parse to a zero-valued literal with an
\* empty digit sequence, decimal_offset 0 and exponent 0.
C9_ZeroInputsAllParse ==
    (Parsed /\ input \in {<<"0", "x", "0">>, <<"0", "x", ".">>, <<"0", "x", ".", "0">>}) =>
        ZeroLiteralParsed

\* C9 amended: "0x0", "0x0." and "0x.0" parse to the zero-valued literal with an
\* empty digit sequence; "0x." has no digit on either side of the separator and
\* fails with MissingDigits at index 3.
C9_ZeroInputsWithADigitParse ==
    /\ (Parsed /\ input \in {<<"0", "x", "0">>, <<"0", "x", "0", ".">>,
                             <<"0", "x", ".", "0">>}) =>
          ZeroLiteralParsed
    /\ (Parsed /\ input = <<"0", "x", ".">>) =>
          /\ ~res.ok
          /\ res.kind = "MissingDigits"
          /\ res.index = 3

\* C9 witness: "0x.0" parsed to the zero literal
C9_Witness == Parsed /\ input = <<"0", "x", ".", "0">> /\ ZeroLiteralParsed

\* C10: the index of every error is at most the input's length, and it is the
\* input's length whenever the parse failed because the input ended where a
\* prefix character, a digit or the exponent's digits were expected.
C10_ErrorIndexRule ==
    (Parsed /\ ~res.ok) =>
        /\ res.index <= Len(input)
        /\ (/\ res.kind \in {"MissingPrefix", "MissingDigits", "MissingExponent"}
            /\ res.consumed = Len(input)) =>
              res.index = Len(input)

(***************************************************************************)
(* The grammar of a literal, stated on the text: an optional sign, 0x, hex  *)
(* digits with at most one separator and at least one digit, and an         *)
(* optional exponent p[+-]d+.                                              *)
(***************************************************************************)
IsHexRun(s) == \A i \in 1..Len(s) : to_digit16(s[i]) >= 0
IsDecRun(s) == \A i \in 1..Len(s) : is_ascii_digit(s[i])

\* s is sign? 0 [xX] hex* (. hex*)? with at least one hex digit
IsMantissa(s) ==
    \E sg \in 0..1 :
        /\ Len(s) >= sg + 2
        /\ sg = 1 => s[1] \in {"+", "-"}
        /\ s[sg + 1] = "0"
        /\ s[sg + 2] \in {"x", "X"}
        /\ LET body == SubSeq(s, sg + 3, Len(s))
           IN  \E d \in 0..Len(body) :
                   /\ IsHexRun(SubSeq(body, 1, d))
                   /\ \/ d = Len(body) /\ d >= 1
                      \/ /\ d < Len(body)
                         /\ body[d + 1] = "."
                         /\ IsHexRun(SubSeq(body, d + 2, Len(body)))
                         /\ Len(body) >= 2

\* the position (from 1) of the first p / P of the input, 0 without one
MarkerIndex ==
    IF \E k \in 1..Len(input) : input[k] \in {"p", "P"}
      THEN CHOOSE k \in 1..Len(input) :
               input[k] \in {"p", "P"} /\ \A j \in 1..(k - 1) : input[j] \notin {"p", "P"}
      ELSE 0

\* The text up to the first p / P is a complete mantissa: the exponent follows.
ExponentReached == MarkerIndex > 0 /\ IsMantissa(SubSeq(input, 1, MarkerIndex - 1))

\* the text after the marker: its sign and its maximal run of decimal digits
ExponentSignLen ==
    IF MarkerIndex < Len(input) /\ input[MarkerIndex + 1] \in {"+", "-"} THEN 1 ELSE 0
ExponentNegative == ExponentSignLen = 1 /\ input[MarkerIndex + 1] = "-"
ExponentRun ==
    LET from == MarkerIndex + ExponentSignLen
        n == CHOOSE n \in 0..(Len(input) - from) :
                 /\ IsDecRun(SubSeq(input, from + 1, from + n))
                 /\ from + n < Len(input) => ~is_ascii_digit(input[from + n + 1])
    IN  SubSeq(input, from + 1, from + n)

\* a first differing digit decides the order of two decimal strings of one length
DecGreater(a, b) ==
    \E i \in 1..Len(a) :
        /\ DecVal(a[i]) > DecVal(b[i])
        /\ \A j \in 1..(i - 1) : a[j] = b[j]

RECURSIVE StripLeadingZeroChars(_)
StripLeadingZeroChars(ds) ==
    IF ds # <<>> /\ ds[1] = "0" THEN StripLeadingZeroChars(SubSeq(ds, 2, Len(ds))) ELSE ds

\* the decimal strings of 2^31 - 1 and 2^31
DecI32Max == <<"2", "1", "4", "7", "4", "8", "3", "6", "4", "7">>
DecI32MinMagnitude == <<"2", "1", "4", "7", "4", "8", "3", "6", "4", "8">>

\* The signed decimal run denotes a number outside [-2^31, 2^31 - 1].
ExponentOutOfRange ==
    LET t == StripLeadingZeroChars(ExponentRun)
        limit == IF ExponentNegative THEN DecI32MinMagnitude ELSE DecI32Max
    IN  Len(t) > Len(limit) \/ (Len(t) = Len(limit) /\ DecGreater(t, limit))

C11_OverflowReached ==
    Parsed /\ res.kind = "ExponentOverflow" /\ ExponentNegative /\ res.index = MarkerIndex

\* s is [pP] [+-]? dec+
IsExponent(s) ==
    /\ Len(s) >= 1
    /\ s[1] \in {"p", "P"}
    /\ \E sg \in 0..1 :
           /\ Len(s) >= sg + 2
           /\ sg = 1 => s[2] \in {"+", "-"}
           /\ IsDecRun(SubSeq(s, sg + 2, Len(s)))

\* s is a whole literal: a mantissa, or a mantissa and an exponent
IsLiteral(s) ==
    \/ IsMantissa(s)
    \/ \E k \in 1..Len(s) :
           /\ s[k] \in {"p", "P"}
           /\ IsExponent(SubSeq(s, k, Len(s)))
           /\ IsMantissa(SubSeq(s, 1, k - 1))

\* the index of the first character past the longest literal the input starts
\* with, -1 when it starts with none
LiteralEnd ==
    LET ends == {n \in 0..Len(input) : IsLiteral(SubSeq(input, 1, n))}
    IN  IF ends # {} THEN CHOOSE n \in ends : \A m \in ends : m <= n ELSE -1

\* texts put in place of what follows the first character past the literal
Continuations ==
    { <<>>, <<"p">>, <<"1">>, <<".", "8">>, <<"p", "-", "2">>, <<"-", "0", "x", "1">> }

\* the call went through an entry point that takes out_consumed
StreamEntry == entry \in {"from_chars", "parse_hex_float"}

\* The state is the one a parsing call returned into (a later Convert changes
\* neither input, res nor out_consumed).
ParseReturned == pc = "parsed" \/ (pc = "converted" /\ entry = "parse_hex_float")

\* C12: parsing a literal embedded in a longer stream stops at the literal's
\* end: on success out_consumed is the index of the first character that is
\* not part of the literal, it is at most the input's length, and neither it
\* nor the literal depends on the characters after that index.
C12_ConsumedIsLiteralEnd ==
    (ParseReturned /\ StreamEntry /\ res.ok) =>
        /\ out_consumed = LiteralEnd
        /\ out_consumed <= Len(input)
        /\ out_consumed < Len(input) =>
              \A t \in Continuations :
                  from_chars(SubSeq(input, 1, out_consumed + 1) \o t, ".") = res

\* C12 witness: "0x3.14p+3" followed by spaces stops at index 9
C12_Witness ==
    /\ Parsed
    /\ StreamEntry
    /\ res.ok
    /\ input = <<"0", "x", "3", ".", "1", "4", "p", "+", "3", " ", " ", " ", " ">>
    /\ out_consumed = 9

(***************************************************************************)
(* The parts of an accepted input, read off its text.                      *)
(***************************************************************************)
\* the end of sign and prefix, and the end of the hex digits and separator
PrefixEnd == (IF input[1] \in {"+", "-"} THEN 1 ELSE 0) + 2
HexEnd(from) ==
    CHOOSE n \in from..Len(input) :
        /\ IsHexRun(SubSeq(input, from + 1, n))
        /\ n < Len(input) => to_digit16(input[n + 1]) < 0
MantissaEnd ==
    LET e == HexEnd(PrefixEnd)
    IN  IF e < Len(input) /\ input[e + 1] = "." THEN HexEnd(e + 1) ELSE e

\* the position of the separator, 0 without one
SepIndex ==
    IF \E i \in (PrefixEnd + 1)..MantissaEnd : input[i] = "."
      THEN CHOOSE i \in (PrefixEnd + 1)..MantissaEnd : input[i] = "."
      ELSE 0

\* the digits written before and after the separator
DigitValues(s) == [i \in 1..Len(s) |-> to_digit16(s[i])] \o <<>>
RawIpart ==
    DigitValues(SubSeq(input, PrefixEnd + 1,
                       IF SepIndex > 0 THEN SepIndex - 1 ELSE MantissaEnd))
RawFpart ==
    IF SepIndex > 0 THEN DigitValues(SubSeq(input, SepIndex + 1, MantissaEnd)) ELSE <<>>

\* the input with a zero digits put in front of its integer part and b zero
\* digits put behind its fractional part (behind a separator written for them
\* when the input has none)
PaddedAt(a, b, pe, me, sep) ==
    SubSeq(input, 1, pe)
        \o Rep("0", a)
        \o SubSeq(input, pe + 1, me)
        \o (IF sep = 0 /\ b > 0 THEN <<".">> ELSE <<>>)
        \o Rep("0", b)
        \o SubSeq(input, me + 1, Len(input))
Padded(a, b) == PaddedAt(a, b, PrefixEnd, MantissaEnd, SepIndex)

C15_NormalForm ==
    (ParseReturned /\ res.ok) =>
        LET ipart == RawIpart
            raw == ipart \o RawFpart
            digits == res.lit.digits
        IN  /\ \A i \in 1..Len(digits) : digits[i] \in 0..15
            /\ digits = <<>> <=> \A i \in 1..Len(raw) : raw[i] = 0
            /\ digits = <<>> => res.lit.decimal_offset = 0
            /\ digits # <<>> =>
                  /\ digits[1] # 0
                  /\ digits[Len(digits)] # 0
                  /\ \E first, last \in 1..Len(raw) :
                         /\ raw[first] # 0
                         /\ \A j \in 1..(first - 1) : raw[j] = 0
                         /\ raw[last] # 0
                         /\ \A j \in (last + 1)..Len(raw) : raw[j] = 0
                         /\ digits = SubSeq(raw, first, last)
                         /\ res.lit.decimal_offset = Len(ipart) - (first - 1)

\* C15 witness: a literal trimmed on both sides, with a negative decimal_offset
C15_Witness ==
    /\ Parsed
    /\ res.ok
    /\ res.lit.digits # <<>>
    /\ res.lit.decimal_offset < 0
    /\ RawFpart # <<>>
    /\ RawFpart[Len(RawFpart)] = 0
    /\ Len(res.lit.digits) < Len(RawIpart) + Len(RawFpart) - 1

\* C17: a failure leaves the consumed count untouched: whenever from_chars or
\* parse_hex_float returns an error of any kind, the caller's out_consumed keeps
\* the value it had before the call, however far the scanner advanced.
C17_FailureKeepsConsumed ==
    [][(pc = "start" /\ entry' \in {"from_chars", "parse_hex_float"} /\ ~res'.ok)
          => out_consumed' = out_consumed]_vars

\* C17 witness: a failed call through out_consumed whose scanner had advanced
C17_Witness ==
    /\ Parsed
    /\ StreamEntry
    /\ ~res.ok
    /\ res.kind = "ExponentOverflow"
    /\ res.consumed > out_consumed
    /\ out_consumed = InitialConsumed

(***************************************************************************)
(* The exact value of a non-zero literal as a binary expansion             *)
(* 1.b1 b2 ... * 2^e, and the two floats of a format around it.            *)
(***************************************************************************)
\* the bits of the digits from the leading one on
LeadBits(lit) == StripLeadingZeros(DigitBits(lit.digits))

\* the first M bits after the leading one, missing bits taken as 0
TruncatedMantissa(f, lit) ==
    LET lead == LeadBits(lit)
    IN  [i \in 1..f.MANTISSA_BITS |-> IF i + 1 <= Len(lead) THEN lead[i + 1] ELSE 0]
            \o <<>>

\* the bits after those, which M + 1 significant bits cannot hold
DiscardedBits(f, lit) == SubSeq(LeadBits(lit), f.MANTISSA_BITS + 2, Len(LeadBits(lit)))

\* the discarded bits against half a unit in the last place
DiscardedBelowHalf(f, lit) == DiscardedBits(f, lit) = <<>> \/ DiscardedBits(f, lit)[1] = 0
DiscardedIsHalf(f, lit) ==
    LET d == DiscardedBits(f, lit)
    IN  d # <<>> /\ d[1] = 1 /\ AllZero(SubSeq(d, 2, Len(d)))
DiscardedAboveHalf(f, lit) ==
    LET d == DiscardedBits(f, lit)
    IN  d # <<>> /\ d[1] = 1 /\ ~AllZero(SubSeq(d, 2, Len(d)))

\* a bit string plus one (of a string that is not all ones)
Increment(b) ==
    LET k == CHOOSE k \in 1..Len(b) : b[k] = 0 /\ \A j \in (k + 1)..Len(b) : b[j] = 1
    IN  [i \in 1..Len(b) |-> IF i < k THEN b[i] ELSE IF i = k THEN 1 ELSE 0] \o <<>>

\* The exact value's leading exponent is in the format's normal range.
InNormalRange(f, lit) ==
    /\ lit.digits # <<>>
    /\ ~TrueExponentAbove(lit, f.MAX_EXP - 1)
    /\ ~TrueExponentBelow(lit, f.MIN_EXP - 1)

\* bits is the exact value truncated toward zero to M + 1 significant bits
IsTruncatedValue(f, bits, lit) ==
    /\ IsNormal(f, bits)
    /\ SignField(bits) = (IF lit.is_positive THEN 0 ELSE 1)
    /\ FloatExponent(f, bits) - ExactLeadExponent(lit) = lit.exponent
    /\ MantissaBits(f, bits) = TruncatedMantissa(f, lit)

\* bits is the float one unit in the last place above the truncated value
IsNextValue(f, bits, lit) ==
    /\ IsNormal(f, bits)
    /\ SignField(bits) = (IF lit.is_positive THEN 0 ELSE 1)
    /\ IF AllOne(TruncatedMantissa(f, lit))
         THEN /\ FloatExponent(f, bits) - 1 - ExactLeadExponent(lit) = lit.exponent
              /\ AllZero(MantissaBits(f, bits))
         ELSE /\ FloatExponent(f, bits) - ExactLeadExponent(lit) = lit.exponent
              /\ MantissaBits(f, bits) = Increment(TruncatedMantissa(f, lit))

\* The float above the truncated value is finite.
NextIsFinite(f, lit) ==
    ~(AllOne(TruncatedMantissa(f, lit)) /\ ~TrueExponentBelow(lit, f.MAX_EXP - 1))

\* No float of the format is strictly closer to the exact value than bits: bits
\* is the truncated value and at most half a unit was discarded, or the float
\* above it and at least half a unit was discarded.
IsClosestValue(f, bits, lit) ==
    \/ /\ IsTruncatedValue(f, bits, lit)
       /\ DiscardedBelowHalf(f, lit) \/ DiscardedIsHalf(f, lit) \/ ~NextIsFinite(f, lit)
    \/ /\ IsNextValue(f, bits, lit)
       /\ NextIsFinite(f, lit)
       /\ DiscardedIsHalf(f, lit) \/ DiscardedAboveHalf(f, lit)

\* C14: an Imprecise finite result is the closest representable value: when a
\* literal whose magnitude is in the format's normal range converts to
\* Imprecise(v) with v finite and non-zero, no other value of the format is
\* strictly closer to the literal's exact value than v.
C14_ImpreciseIsClosest ==
    (/\ Returned
     /\ conv.tag = "Imprecise"
     /\ InNormalRange(Fmt, res.lit)
     /\ IsNormal(Fmt, conv.bits)) =>
        IsClosestValue(Fmt, conv.bits, res.lit)

\* C16: mantissa overflow is a hard truncation of the exact value: for a
\* non-zero literal whose exponent is in the normal range, in f32 and f64, the
\* mantissa field is the first M bits after the leading 1 bit of the full digit
\* sequence (missing bits 0), and the result is Imprecise exactly when a
\* non-zero bit was discarded.
C16_HardTruncation ==
    (pc = "converted" /\ InNormalRange(Fmt, res.lit)) =>
        /\ Returned
        /\ IsTruncatedValue(Fmt, conv.bits, res.lit)
        /\ conv.tag = "Imprecise" <=> ~AllZero(DiscardedBits(Fmt, res.lit))

====
